---- MODULE Spec2Model ----
(***************************************************************************)
(* JustBus backend: seat holds, confirmation, expiry sweep and ticket scan *)
(* (src/index.js).  Every `await` on the store is one step of the request  *)
(* that issues it; steps of different requests and of the periodic sweep   *)
(* interleave freely.  A hold runs inside one store transaction; confirm,  *)
(* scan and the sweep issue autocommitted statements.                      *)
(*                                                                         *)
(* The clock counts in units of the hold time-to-live (three minutes).     *)
(* The store keeps hold_expires_at as a local wall-clock value and NOW()   *)
(* reads the same local clock, while UTC_TIMESTAMP() reads UTC; tzOffset   *)
(* is local minus UTC.                                                     *)
(***************************************************************************)
EXTENDS Integers, Sequences, FiniteSets, TLC

\* ---------------------------------------------------------------- bounds
MaxHolds == 2      \* bookings rows: holds in flight or committed
MaxInFlight == 2   \* requests between their first and last store call
MaxTime == 2       \* last value of the clock

\* ------------------------------------------------------ program constants
HoldTTL == 1        \* 3 * 60 * 1000 ms, one unit of the clock

\* ------------------------------------------------------------ input sets
Trips == {1, 2}
Seats == {1, 2}
Users == {1, 2}     \* callers of confirm
Holders == {1}      \* callers of hold
TzOffsets == {0, 60} \* a deployment on UTC and one three hours east of it

\* seat lists a client may send: empty, one seat, two seats in either order,
\* one seat twice
SeatLists == {<<>>, <<1>>, <<2>>, <<1, 2>>, <<2, 1>>, <<1, 1>>}

\* request bodies of POST /api/bookings/hold: every seat list on trip 1, one
\* seat on trip 2; tripId 0 stands for a missing tripId, stops = FALSE for a
\* missing pickup or dropoff
HoldBodies ==
  [tripId : {1}, stops : {TRUE}, seats : SeatLists]
    \cup {[tripId |-> 2, stops |-> TRUE, seats |-> <<1>>],
          [tripId |-> 0, stops |-> TRUE, seats |-> <<1>>],
          [tripId |-> 1, stops |-> FALSE, seats |-> <<1>>]}

\* ids of bookings rows; the row a hold inserts gets the lowest id that no
\* committed row and no open transaction has
BookingIds == 1..MaxHolds

VARIABLES
  now,            \* UTC clock
  tzOffset,       \* local clock minus UTC clock of the deployment
  bookings,       \* table bookings: id -> row ("none" not inserted,
                  \*   "released" deleted)
  booking_seats,  \* table booking_seats: set of rows
  scan_logs,      \* table scan_logs: booking id -> number of rows
  holds,          \* booking id -> the hold request that inserts or inserted it
  confirms,       \* booking id -> confirm requests between SELECT and UPDATE
  scans,          \* booking id -> scan requests before UPDATE and before INSERT
  resp,           \* answer being written by the step that ended a request
  valid,          \* booking id -> valid:true answers given for its token
  alive           \* the Node process is running

vars == <<now, tzOffset, bookings, booking_seats, scan_logs,
          holds, confirms, scans, resp, valid, alive>>

NoRow == [status |-> "none", user_id |-> 0, trip_id |-> 0, hold_expires_at |-> 0]

IdleHold ==
  [pc |-> "idle", userId |-> 0, tripId |-> 0, seats |-> <<>>,
   holdExpiresAt |-> 0, inserted |-> 0, deleted |-> {},
   alone |-> FALSE, contended |-> FALSE, beaten |-> {},
   free |-> FALSE, stale |-> FALSE]

NoResp ==
  [op |-> "none", res |-> "none", id |-> 0, taken |-> {},
   alone |-> FALSE, contended |-> FALSE, beaten |-> {},
   free |-> FALSE, stale |-> FALSE, distinct |-> FALSE]

\* outcome of a step of a confirm or scan request, or of the sweep
Resp(op, res, id) == [NoResp EXCEPT !.op = op, !.res = res, !.id = id]

Range(s) == {s[i] : i \in 1..Len(s)}

\* outcome of the last step of hold h
HoldResp(h, res, taken) ==
  [op |-> "hold", res |-> res, id |-> h, taken |-> taken,
   alone |-> holds[h].alone, contended |-> holds[h].contended,
   beaten |-> holds[h].beaten, free |-> holds[h].free,
   stale |-> holds[h].stale,
   distinct |-> (Cardinality(Range(holds[h].seats)) = Len(holds[h].seats))]

\* a row of bookings that a statement can see
RowExists(b) == bookings[b].status \in {"held", "confirmed", "used"}

\* NOW() and UTC_TIMESTAMP() of the store
StoreNow == now + tzOffset
UtcTimestamp == now

\* ExpiredHeld with the comparison turned round
ExpiredHeld_Flipped(b) ==
  /\ bookings[b].status = "held"
  /\ bookings[b].hold_expires_at > StoreNow

\* ExpiredHeld without the condition on status
ExpiredHeld_AnyStatus(b) ==
  /\ RowExists(b)
  /\ bookings[b].hold_expires_at < StoreNow

\* WHERE status = 'held' AND hold_expires_at < NOW()
ExpiredHeld(b) ==
  /\ bookings[b].status = "held"
  /\ bookings[b].hold_expires_at < StoreNow

\* hold requests whose transaction is open
OpenTx == {h \in BookingIds : holds[h].pc \in {"select", "insert", "commit"}}

\* seat numbers hold h has inserted in its open transaction
Pending(h) == {holds[h].seats[i] : i \in 1..holds[h].inserted}

\* bookings row b is deleted by an open transaction and so locked
Locked(b) == \E g \in OpenTx : b \in holds[g].deleted

\* requests in flight: open hold transactions, confirms before their
\* UPDATE, scans before their UPDATE or INSERT
InFlight ==
  LET RECURSIVE Sum(_)
      Sum(n) == IF n = 0 THEN 0
                ELSE confirms[n] + scans[n].update + scans[n].log + Sum(n - 1)
  IN Cardinality(OpenTx) + Sum(MaxHolds)

Init ==
  /\ now = 0
  /\ tzOffset \in TzOffsets
  /\ bookings = [b \in BookingIds |-> NoRow]
  /\ booking_seats = {}
  /\ scan_logs = [b \in BookingIds |-> 0]
  /\ holds = [b \in BookingIds |-> IdleHold]
  /\ confirms = [b \in BookingIds |-> 0]
  /\ scans = [b \in BookingIds |-> [update |-> 0, log |-> 0]]
  /\ resp = NoResp
  /\ valid = [b \in BookingIds |-> 0]
  /\ alive = TRUE

Tick ==
  /\ resp = NoResp
  /\ now < MaxTime
  /\ now' = now + 1
  /\ resp' = resp
  /\ UNCHANGED <<tzOffset, bookings, booking_seats, scan_logs,
                 holds, confirms, scans, valid, alive>>

\* ------------------------------------------- POST /api/bookings/hold
\* validation of the request body, before a connection is taken
HoldBodyValid(body) ==
  /\ body.tripId # 0
  /\ body.stops
  /\ body.seats # <<>>

\* TakenRows without the seat_number IN (...) condition
TakenRows_AnySeat(h) ==
  {s \in booking_seats :
     /\ s.trip_id = holds[h].tripId
     /\ s.booking_id \notin holds[h].deleted}

\* rows of booking_seats the transaction of hold h reads with
\* WHERE trip_id = ? AND seat_number IN (...): committed rows, less the rows
\* that went with the bookings h itself deleted
TakenRows(h) ==
  {s \in booking_seats :
     /\ s.trip_id = holds[h].tripId
     /\ s.seat_number \in Range(holds[h].seats)
     /\ s.booking_id \notin holds[h].deleted}

\* hold h answers without a commit: its transaction is rolled back and
\* nothing of the request is left
HoldAbort(h) == [holds EXCEPT ![h] = IdleHold]

\* the request arrives; an invalid one is answered 400 and leaves no trace,
\* a valid one takes a connection, begins its transaction and deletes the
\* expired holds (waiting for rows another open transaction has deleted)
HoldRequest(body, user) ==
  /\ alive /\ resp = NoResp
  /\ IF ~HoldBodyValid(body)
     THEN /\ resp' = NoResp
          /\ holds' = holds
     ELSE /\ InFlight < MaxInFlight
          /\ \E h \in BookingIds : holds[h].pc = "idle"
          /\ \A b \in BookingIds : ExpiredHeld(b) => ~Locked(b)
          /\ LET h == CHOOSE i \in BookingIds :
                        /\ holds[i].pc = "idle"
                        /\ \A j \in BookingIds : holds[j].pc = "idle" => i <= j
                 rows == {s \in booking_seats :
                            /\ s.trip_id = body.tripId
                            /\ s.seat_number \in Range(body.seats)}
                 rivals == {g \in OpenTx :
                              /\ holds[g].tripId = body.tripId
                              /\ Range(holds[g].seats) \cap Range(body.seats) # {}}
             IN holds' = [g \in BookingIds |->
                  IF g = h
                  THEN [IdleHold EXCEPT !.pc = "select", !.userId = user,
                          !.tripId = body.tripId, !.seats = body.seats,
                          !.deleted = {b \in BookingIds : ExpiredHeld(b)},
                          !.alone = (OpenTx = {}),
                          !.contended = (rivals # {}),
                          !.free = (rows = {}),
                          !.stale = \A s \in rows :
                             /\ bookings[s.booking_id].status = "held"
                             /\ bookings[s.booking_id].hold_expires_at - tzOffset < now]
                  ELSE IF g \in OpenTx
                  THEN [holds[g] EXCEPT !.alone = FALSE,
                          !.contended = @ \/ g \in rivals]
                  ELSE holds[g]]
          /\ resp' = NoResp
  /\ UNCHANGED <<now, tzOffset, bookings, booking_seats, scan_logs,
                 confirms, scans, valid, alive>>

\* the conflict check; 409 with the seats found, after a rollback, or the
\* expiry is computed and the bookings row inserted in the transaction
HoldSelect(h) ==
  /\ alive /\ resp = NoResp
  /\ holds[h].pc = "select"
  /\ LET taken == {s.seat_number : s \in TakenRows(h)}
     IN IF taken # {}
        THEN /\ holds' = HoldAbort(h)
             /\ resp' = HoldResp(h, "conflict", taken)
        ELSE /\ holds' = [holds EXCEPT ![h].pc = "insert",
                            ![h].holdExpiresAt = StoreNow + HoldTTL]
             /\ resp' = NoResp
  /\ UNCHANGED <<now, tzOffset, bookings, booking_seats, scan_logs,
                 confirms, scans, valid, alive>>

\* the seat hold h inserts next
NextSeat(h) == holds[h].seats[holds[h].inserted + 1]

\* committed rows of booking_seats with the key (trip_id, seat_number) that
\* hold h is about to insert, less the rows h itself deleted
KeyRows(h) ==
  {s \in booking_seats :
     /\ s.trip_id = holds[h].tripId
     /\ s.seat_number = NextSeat(h)
     /\ s.booking_id \notin holds[h].deleted}

\* hold h waits for the transaction of hold g: g has inserted the key that h
\* is about to insert, or g has deleted the row that carries it
WaitsFor(h, g) ==
  /\ h \in OpenTx /\ g \in OpenTx /\ h # g
  /\ holds[h].pc = "insert"
  /\ \/ /\ holds[g].tripId = holds[h].tripId
        /\ NextSeat(h) \in Pending(g)
     \/ \E s \in KeyRows(h) : s.booking_id \in holds[g].deleted

\* unique key (trip_id, seat_number) of booking_seats: the insert is refused
\* when the key is in a committed row or among the rows h has inserted
DuplicateKey(h) ==
  \/ NextSeat(h) \in Pending(h)
  \/ KeyRows(h) # {}

\* HoldInsertSeat with the refused insert passed over (INSERT IGNORE, or the
\* error caught inside the loop): the loop goes on to the next seat
HoldInsertSeat_IgnoreDuplicate(h) ==
  /\ alive /\ resp = NoResp
  /\ holds[h].pc = "insert"
  /\ \A g \in OpenTx : ~WaitsFor(h, g)
  /\ holds' = [holds EXCEPT ![h].inserted = @ + 1,
                  ![h].pc = IF holds[h].inserted + 1 = Len(holds[h].seats)
                            THEN "commit" ELSE "insert"]
  /\ resp' = NoResp
  /\ UNCHANGED <<now, tzOffset, bookings, booking_seats, scan_logs,
                 confirms, scans, valid, alive>>

\* HoldInsertSeat with a catch block that does not roll back: the rows
\* inserted before the refused insert are committed
HoldInsertSeat_CommitPartial(h) ==
  /\ alive /\ resp = NoResp
  /\ holds[h].pc = "insert"
  /\ \A g \in OpenTx : ~WaitsFor(h, g)
  /\ IF DuplicateKey(h)
     THEN /\ holds' = [holds EXCEPT ![h] = [IdleHold EXCEPT !.pc = "done"]]
          /\ bookings' = [bookings EXCEPT
                            ![h] = [status |-> "held", user_id |-> holds[h].userId,
                                    trip_id |-> holds[h].tripId,
                                    hold_expires_at |-> holds[h].holdExpiresAt]]
          /\ booking_seats' = booking_seats \cup
               {[booking_id |-> h, trip_id |-> holds[h].tripId, seat_number |-> n] :
                  n \in Pending(h)}
          /\ resp' = HoldResp(h, "error", {})
     ELSE /\ holds' = [holds EXCEPT ![h].inserted = @ + 1,
                         ![h].pc = IF holds[h].inserted + 1 = Len(holds[h].seats)
                                   THEN "commit" ELSE "insert"]
          /\ resp' = NoResp
          /\ UNCHANGED <<bookings, booking_seats>>
  /\ UNCHANGED <<now, tzOffset, scan_logs, confirms, scans, valid, alive>>

\* one INSERT INTO booking_seats of the loop; a refused insert throws, the
\* catch block rolls back and answers 500
HoldInsertSeat(h) ==
  /\ alive /\ resp = NoResp
  /\ holds[h].pc = "insert"
  /\ \A g \in OpenTx : ~WaitsFor(h, g)
  /\ IF DuplicateKey(h)
     THEN /\ holds' = HoldAbort(h)
          /\ resp' = HoldResp(h, "error", {})
     ELSE /\ holds' = [holds EXCEPT ![h].inserted = @ + 1,
                         ![h].pc = IF holds[h].inserted + 1 = Len(holds[h].seats)
                                   THEN "commit" ELSE "insert"]
          /\ resp' = NoResp
  /\ UNCHANGED <<now, tzOffset, bookings, booking_seats, scan_logs,
                 confirms, scans, valid, alive>>

\* two transactions wait for each other: the store aborts one of them with
\* a deadlock error, which the catch block answers with 500
HoldDeadlock(h) ==
  /\ alive /\ resp = NoResp
  /\ \E g \in OpenTx : WaitsFor(h, g) /\ WaitsFor(g, h)
  /\ holds' = HoldAbort(h)
  /\ resp' = HoldResp(h, "error", {})
  /\ UNCHANGED <<now, tzOffset, bookings, booking_seats, scan_logs,
                 confirms, scans, valid, alive>>

\* ON DELETE CASCADE from bookings to booking_seats
CascadeDelete(rows, gone) == {s \in rows : s.booking_id \notin gone}

\* DELETE of a set of bookings rows
DeleteBookings(gone) ==
  [b \in BookingIds |->
     IF b \in gone THEN [NoRow EXCEPT !.status = "released"] ELSE bookings[b]]

\* commit: the deletes and the inserts of the transaction become visible,
\* and the answer 200 with the bookingId
HoldCommit(h) ==
  /\ alive /\ resp = NoResp
  /\ holds[h].pc = "commit"
  /\ bookings' = [DeleteBookings(holds[h].deleted) EXCEPT
                    ![h] = [status |-> "held", user_id |-> holds[h].userId,
                            trip_id |-> holds[h].tripId,
                            hold_expires_at |-> holds[h].holdExpiresAt]]
  /\ booking_seats' = CascadeDelete(booking_seats, holds[h].deleted) \cup
       {[booking_id |-> h, trip_id |-> holds[h].tripId, seat_number |-> s] :
          s \in Range(holds[h].seats)}
  /\ holds' = [g \in BookingIds |->
       IF g = h THEN [IdleHold EXCEPT !.pc = "done"]
       ELSE IF /\ g \in OpenTx
               /\ holds[g].tripId = holds[h].tripId
               /\ Range(holds[g].seats) \cap Range(holds[h].seats) # {}
       THEN [holds[g] EXCEPT !.beaten = @ \cup {h}]
       ELSE holds[g]]
  /\ resp' = HoldResp(h, "ok", {})
  /\ UNCHANGED <<now, tzOffset, scan_logs, confirms, scans, valid, alive>>

\* a statement of the transaction fails: rollback and 500
HoldFault(h) ==
  /\ alive /\ resp = NoResp
  /\ h \in OpenTx
  /\ holds' = HoldAbort(h)
  /\ resp' = [HoldResp(h, "error", {}) EXCEPT !.op = "holdfault"]
  /\ UNCHANGED <<now, tzOffset, bookings, booking_seats, scan_logs,
                 confirms, scans, valid, alive>>

\* ---------------------------------------- POST /api/bookings/confirm
\* SELECT ... WHERE id = ? AND user_id = ? AND status = 'held'
\*   AND hold_expires_at > UTC_TIMESTAMP()
ConfirmRows(bookingId, user) ==
  {b \in BookingIds :
     /\ b = bookingId
     /\ bookings[b].user_id = user
     /\ bookings[b].status = "held"
     /\ bookings[b].hold_expires_at > UtcTimestamp}

\* what the handler does after the SELECT: it answers 409 when no row was
\* found and goes on to the UPDATE otherwise
ConfirmAnswer(bookingId, user) ==
  IF ConfirmRows(bookingId, user) = {} THEN "conflict" ELSE "update"

\* the request arrives with a bookingId and the SELECT runs; the 409 answer
\* leaves no trace
ConfirmRequest(bookingId, user) ==
  /\ alive /\ resp = NoResp
  /\ IF ConfirmAnswer(bookingId, user) = "conflict"
     THEN confirms' = confirms
     ELSE /\ InFlight < MaxInFlight
          /\ confirms' = [confirms EXCEPT ![bookingId] = @ + 1]
  /\ resp' = NoResp
  /\ UNCHANGED <<now, tzOffset, bookings, booking_seats, scan_logs,
                 holds, scans, valid, alive>>

\* UPDATE bookings SET status = ... WHERE id = ?
UpdateStatus(b, status) ==
  IF RowExists(b) THEN [bookings EXCEPT ![b].status = status] ELSE bookings

\* the UPDATE (it waits while an open transaction has deleted the row) and
\* the answer success:true
ConfirmUpdate(b) ==
  /\ alive /\ resp = NoResp
  /\ confirms[b] > 0
  /\ ~Locked(b)
  /\ bookings' = UpdateStatus(b, "confirmed")
  /\ confirms' = [confirms EXCEPT ![b] = @ - 1]
  /\ resp' = Resp("confirm", "ok", b)
  /\ UNCHANGED <<now, tzOffset, booking_seats, scan_logs, holds, scans,
                 valid, alive>>

\* the UPDATE fails: the catch block answers 500
ConfirmFault(b) ==
  /\ alive /\ resp = NoResp
  /\ confirms[b] > 0
  /\ confirms' = [confirms EXCEPT ![b] = @ - 1]
  /\ resp' = Resp("confirm", "error", b)
  /\ UNCHANGED <<now, tzOffset, bookings, booking_seats, scan_logs,
                 holds, scans, valid, alive>>

\* ------------------------------------------------ setInterval cleanup
\* one tick of the periodic sweep whose DELETE succeeds
Sweep ==
  /\ alive /\ resp = NoResp
  /\ \A b \in BookingIds : ExpiredHeld(b) => ~Locked(b)
  /\ LET gone == {b \in BookingIds : ExpiredHeld(b)}
     IN /\ bookings' = DeleteBookings(gone)
        /\ booking_seats' = CascadeDelete(booking_seats, gone)
  /\ resp' = NoResp
  /\ UNCHANGED <<now, tzOffset, scan_logs, holds, confirms, scans,
                 valid, alive>>

\* a promise rejected inside an async callback with no try/catch: the runtime
\* either ends the process or only prints a warning
UnhandledRejection == alive' \in BOOLEAN

\* one tick of the periodic sweep whose DELETE fails
SweepFail ==
  /\ alive /\ resp = NoResp
  /\ UnhandledRejection
  /\ resp' = Resp("sweep", "error", 0)
  /\ UNCHANGED <<now, tzOffset, bookings, booking_seats, scan_logs,
                 holds, confirms, scans, valid>>

\* ------------------------------------- GET /api/trips/:tripId/seats
\* SELECT bs.seat_number ... FROM booking_seats bs JOIN bookings b
\*   JOIN users u WHERE bs.trip_id = ?; the user of every booking has its
\* users row
ReservedSeats(tripId) ==
  {s.seat_number : s \in {r \in booking_seats :
     r.trip_id = tripId /\ RowExists(r.booking_id)}}

\* the request runs its one SELECT and answers reservedSeats; it writes
\* nothing
SeatsRequest(tripId) ==
  /\ alive /\ resp = NoResp
  /\ tripId \in Trips
  /\ UNCHANGED vars

\* ------------------------------------------------- POST /driver/scan
\* SELECT b.id, b.status ... JOIN trips ... WHERE b.qr_token = ?; the token
\* of bookings row b is b, and the trip of every booking has its trips row
ScanRows(qrToken) == {b \in BookingIds : b = qrToken /\ RowExists(b)}

\* what the handler does after the SELECT: 404 for no row, valid:false for a
\* row that is not confirmed, and the UPDATE otherwise
ScanAnswer(qrToken) ==
  IF ScanRows(qrToken) = {} THEN "invalid"
  ELSE IF \E b \in ScanRows(qrToken) : bookings[b].status # "confirmed"
  THEN "rejected"
  ELSE "update"

\* the request arrives with a qrToken and the SELECT runs; the 404 and the
\* valid:false answers leave no trace
ScanRequest(qrToken) ==
  /\ alive /\ resp = NoResp
  /\ IF ScanAnswer(qrToken) # "update"
     THEN scans' = scans
     ELSE /\ InFlight < MaxInFlight
          /\ scans' = [scans EXCEPT ![qrToken].update = @ + 1]
  /\ resp' = NoResp
  /\ UNCHANGED <<now, tzOffset, bookings, booking_seats, scan_logs,
                 holds, confirms, valid, alive>>

\* UPDATE bookings SET status = 'used' WHERE id = ?
ScanUpdate(b) ==
  /\ alive /\ resp = NoResp
  /\ scans[b].update > 0
  /\ ~Locked(b)
  /\ bookings' = UpdateStatus(b, "used")
  /\ scans' = [scans EXCEPT ![b].update = @ - 1, ![b].log = @ + 1]
  /\ resp' = NoResp
  /\ UNCHANGED <<now, tzOffset, booking_seats, scan_logs, holds, confirms,
                 valid, alive>>

\* INSERT INTO scan_logs and the answer valid:true
ScanLog(b) ==
  /\ alive /\ resp = NoResp
  /\ scans[b].log > 0
  /\ scan_logs' = [scan_logs EXCEPT ![b] = @ + 1]
  /\ scans' = [scans EXCEPT ![b].log = @ - 1]
  /\ valid' = [valid EXCEPT ![b] = @ + 1]
  /\ resp' = Resp("scan", "valid", b)
  /\ UNCHANGED <<now, tzOffset, bookings, booking_seats, holds, confirms,
                 alive>>

\* the UPDATE or the INSERT fails: the handler has no try/catch, the request
\* is never answered
ScanFault(b) ==
  /\ alive /\ resp = NoResp
  /\ \/ /\ scans[b].update > 0
        /\ scans' = [scans EXCEPT ![b].update = @ - 1]
     \/ /\ scans[b].log > 0
        /\ scans' = [scans EXCEPT ![b].log = @ - 1]
  /\ UnhandledRejection
  /\ resp' = Resp("scan", "hung", b)
  /\ UNCHANGED <<now, tzOffset, bookings, booking_seats, scan_logs,
                 holds, confirms, valid>>

\* the answer of the request that ended in the last step has gone out; the
\* steps above are taken only when no answer is being written, as res.json
\* runs in the same turn of the event loop as the continuation that computes
\* the answer
Deliver ==
  /\ resp # NoResp
  /\ resp' = NoResp
  /\ UNCHANGED <<now, tzOffset, bookings, booking_seats, scan_logs,
                 holds, confirms, scans, valid, alive>>

Next ==
  \/ Tick
  \/ Deliver
  \/ \E body \in HoldBodies, user \in Holders : HoldRequest(body, user)
  \/ \E h \in BookingIds : HoldSelect(h)
  \/ \E h \in BookingIds : HoldInsertSeat(h)
  \/ \E h \in BookingIds : HoldDeadlock(h)
  \/ \E h \in BookingIds : HoldCommit(h)
  \/ \E h \in BookingIds : HoldFault(h)
  \/ \E b \in BookingIds, user \in Users : ConfirmRequest(b, user)
  \/ \E b \in BookingIds : ConfirmUpdate(b)
  \/ \E b \in BookingIds : ConfirmFault(b)
  \/ Sweep
  \/ SweepFail
  \/ \E t \in BookingIds : ScanRequest(t)
  \/ \E b \in BookingIds : ScanUpdate(b)
  \/ \E b \in BookingIds : ScanLog(b)
  \/ \E b \in BookingIds : ScanFault(b)
  \/ \E t \in Trips : SeatsRequest(t)

Spec == Init /\ [][Next]_vars

\* The timer of the sweep fires every 60 seconds whatever requests are in
\* flight, the store answers every statement it is sent, and an answer that
\* is being written goes out.
Fairness ==
  /\ SF_vars(Sweep)
  /\ WF_vars(Deliver)
  /\ \A h \in BookingIds :
       /\ SF_vars(HoldSelect(h))
       /\ SF_vars(HoldInsertSeat(h))
       /\ SF_vars(HoldDeadlock(h))
       /\ SF_vars(HoldCommit(h))

\* the hold, confirm and sweep paths alone, with the hold bodies that pass
\* validation on one trip: the ticket scan acts only on confirmed bookings
LiveBodies == [tripId : {1}, stops : {TRUE}, seats : {<<1>>, <<1, 2>>, <<2, 1>>}]

LiveNext ==
  \/ Tick
  \/ Deliver
  \/ \E body \in LiveBodies, user \in Holders : HoldRequest(body, user)
  \/ \E h \in BookingIds : HoldSelect(h)
  \/ \E h \in BookingIds : HoldInsertSeat(h)
  \/ \E h \in BookingIds : HoldDeadlock(h)
  \/ \E h \in BookingIds : HoldCommit(h)
  \/ \E h \in BookingIds : HoldFault(h)
  \/ \E b \in BookingIds, user \in Users : ConfirmRequest(b, user)
  \/ \E b \in BookingIds : ConfirmUpdate(b)
  \/ \E b \in BookingIds : ConfirmFault(b)
  \/ Sweep
  \/ SweepFail

FairSpec == Init /\ [][LiveNext]_vars /\ Fairness
\* ----------------------------------------------------------- properties
\* the instant (UTC clock) at which the hold of bookings row b runs out
ExpiryInstant(b) == bookings[b].hold_expires_at - tzOffset

\* bookings row b is held and its time-to-live has elapsed
HoldElapsed(b) == bookings[b].status = "held" /\ ExpiryInstant(b) < now

\* bookings row b is live: held and not elapsed, confirmed, or used
Live(b) == RowExists(b) /\ ~HoldElapsed(b)

\* the answer being written is that of a hold that ran its transaction
\* without a store fault
HoldAnswered == resp.op = "hold"

\* C1 (as stated): of two hold calls on one trip whose transactions overlap
\* and whose seat lists share a seat, never both answer 200
C1_NeverBothSucceed ==
  (HoldAnswered /\ resp.res = "ok") => resp.beaten = {}

\* C1 (amended): a hold call answers 200 after an overlapping call that
\* shares a seat with it has answered 200 only when the booking of that call
\* is no longer in the store
C1_NoDoubleHold ==
  (HoldAnswered /\ resp.res = "ok") => \A g \in resp.beaten : ~RowExists(g)

C1_Witness ==
  /\ HoldAnswered /\ resp.res = "error"
  /\ \E g \in resp.beaten : RowExists(g)

\* C2: for every token at most one scan is answered valid:true
C2_AtMostOneValid == \A b \in BookingIds : valid[b] <= 1

\* C3 (I1): for every trip and seat at most one row of booking_seats belongs
\* to a live booking
C3_OneLiveAllocation ==
  \A t \in Trips, n \in Seats :
    Cardinality({s \in booking_seats :
                   s.trip_id = t /\ s.seat_number = n /\ Live(s.booking_id)}) <= 1

C3_Witness ==
  \E s1 \in booking_seats, s2 \in booking_seats :
    /\ s1.booking_id # s2.booking_id
    /\ Live(s1.booking_id) /\ Live(s2.booking_id)
    /\ bookings[s1.booking_id].status = "used"

\* C4: when confirm answers success the booking is in the store, confirmed
\* or used, with its seat rows
C4_ConfirmedWhenSuccess ==
  (resp.op = "confirm" /\ resp.res = "ok") =>
     /\ bookings[resp.id].status \in {"confirmed", "used"}
     /\ \E s \in booking_seats : s.booking_id = resp.id

\* C5 (I3): the status of a booking changes only from held to confirmed,
\* from confirmed to used, from held to released (and from absent to held)
StatusSteps ==
  {<<"none", "held">>, <<"held", "confirmed">>, <<"confirmed", "used">>,
   <<"held", "released">>}

C5_OneWayStatus ==
  [][\A b \in BookingIds :
       \/ bookings'[b].status = bookings[b].status
       \/ <<bookings[b].status, bookings'[b].status>> \in StatusSteps]_vars

\* C6: a hold call answered after an overlapping call that shares a seat
\* with it has answered 200 gets 409, and the seats listed name a seat of
\* that call
C6_LoserGetsConflict ==
  (HoldAnswered /\ resp.beaten # {}) =>
     /\ resp.res = "conflict"
     /\ \A g \in resp.beaten :
          \E s \in booking_seats : s.booking_id = g /\ s.seat_number \in resp.taken

\* C7: in every state a confirm call for a held booking whose time-to-live
\* has elapsed, by whatever caller, is answered 409 after its SELECT
C7_ElapsedHoldNotConfirmed ==
  \A b \in BookingIds, u \in Users :
    HoldElapsed(b) => ConfirmAnswer(b, u) = "conflict"

\* C8: a hold call with distinct seats that runs with no other hold call in
\* flight, and at whose arrival every requested seat is free or allocated to
\* a held booking whose time-to-live has elapsed, answers 200
C8_StaleHoldDoesNotBlock ==
  (HoldAnswered /\ resp.alone /\ resp.stale /\ resp.distinct) => resp.res = "ok"

C8_Witness ==
  /\ HoldAnswered /\ resp.res = "ok"
  /\ resp.alone /\ resp.stale /\ ~resp.free

\* C9: a hold call with distinct seats, all free at its arrival, answers 200
\* whenever no hold call that overlaps it asks for one of its seats
C9_DisjointHoldsSucceed ==
  (HoldAnswered /\ resp.free /\ ~resp.contended /\ resp.distinct) =>
     resp.res = "ok"

C9_Witness ==
  /\ HoldAnswered /\ resp.res = "ok"
  /\ resp.free /\ ~resp.contended /\ ~resp.alone
  /\ \E g \in BookingIds \ {resp.id} : holds[g].pc = "done" /\ RowExists(g)

\* C10: a sweep whose store call fails does not stop the process
C10_FailedSweepKeepsRunning ==
  (resp.op = "sweep" /\ resp.res = "error") => alive

\* bookings row b has been deleted and no row of booking_seats points to it
Released(b) ==
  /\ bookings[b].status = "released"
  /\ \A s \in booking_seats : s.booking_id # b

\* C11: while the process runs and the sweep keeps firing, every booking
\* that is held past its expiry is eventually released, its seat rows gone
C11_ElapsedHoldReleased ==
  \A b \in BookingIds : HoldElapsed(b) ~> (Released(b) \/ ~alive)

\* C12: once no scan of its token is between two of its store calls, a
\* booking has at most one row in scan_logs, and it has one exactly when its
\* status is used
C12_ScanRecordIffUsed ==
  \A b \in BookingIds :
    (scans[b].update = 0 /\ scans[b].log = 0) =>
       /\ scan_logs[b] <= 1
       /\ (scan_logs[b] = 1) <=> (bookings[b].status = "used")

\* C13: a scan answered 404 or valid:false writes nothing, and the UPDATE of
\* a scan, after which the scan inserts its row of scan_logs, always finds
\* the booking in status confirmed
C13_ScanWritesOnlyConfirmed ==
  [][\A b \in BookingIds :
       /\ (ScanAnswer(b) # "update" /\ scans[b].update = 0 /\ scans[b].log = 0)
             => (scan_logs'[b] = scan_logs[b] /\ scans'[b].log = 0)
       /\ scans'[b].log > scans[b].log => bookings[b].status = "confirmed"]_vars

\* rows of booking_seats of booking b
SeatRows(b) == {s \in booking_seats : s.booking_id = b}

\* C14: no step removes a confirmed or used booking, changes its owner, trip
\* or expiry, or removes one of its rows of booking_seats, and every step
\* leaves it confirmed or used
C14_ReleaseSparesConfirmed ==
  [][\A b \in BookingIds :
       bookings[b].status \in {"confirmed", "used"} =>
          /\ bookings'[b].status \in {"confirmed", "used"}
          /\ bookings'[b] = [bookings[b] EXCEPT !.status = bookings'[b].status]
          /\ SeatRows(b) \subseteq booking_seats']_vars

\* a confirmed or used booking whose expiry is past is in the store with its
\* seat rows, and a sweep or a reclaim pass has released another booking
C14_Witness ==
  \E b \in BookingIds, g \in BookingIds :
    /\ bookings[b].status \in {"confirmed", "used"}
    /\ bookings[b].hold_expires_at < StoreNow
    /\ SeatRows(b) # {}
    /\ bookings[g].status = "released"

\* C15: the bookings row of a hold call appears in the store in the step of
\* its commit, together with one row of booking_seats for every seat asked
\* for; a call that ends without a commit leaves no bookings row and no row
\* of booking_seats; and no row of booking_seats is ever without its
\* bookings row
C15_HoldAllOrNothing ==
  [][/\ \A h \in BookingIds :
          /\ (bookings[h].status = "none" /\ bookings'[h].status # "none") =>
                /\ holds[h].pc = "commit"
                /\ {s \in booking_seats' : s.booking_id = h} =
                     {[booking_id |-> h, trip_id |-> holds[h].tripId,
                       seat_number |-> n] : n \in Range(holds[h].seats)}
          /\ (h \in OpenTx /\ holds'[h].pc = "idle") =>
                /\ bookings'[h].status = "none"
                /\ {s \in booking_seats' : s.booking_id = h} = {}
     /\ \A s \in booking_seats' :
          bookings'[s.booking_id].status \in {"held", "confirmed", "used"}]_vars

\* a hold call that asked for one seat twice has inserted its bookings row
\* and the first seat row, failed on the second, and left nothing
C15_Witness ==
  /\ resp.op = "hold" /\ resp.res = "error"
  /\ ~resp.distinct /\ resp.beaten = {}
  /\ bookings[resp.id].status = "none"
  /\ SeatRows(resp.id) = {}
  /\ \E g \in BookingIds : RowExists(g)

\* seats hold h asks for that a live booking of its trip has
LiveTaken(h) ==
  {s.seat_number : s \in {r \in booking_seats :
     /\ r.trip_id = holds[h].tripId
     /\ r.seat_number \in Range(holds[h].seats)
     /\ Live(r.booking_id)}}

\* C16: the step in which a hold call answers 409 changes no row of bookings
\* or booking_seats, and the seats it lists are exactly the requested seats
\* that live bookings of the trip have at that moment
C16_ConflictReportsLiveSeats ==
  [][\A h \in BookingIds :
       (holds[h].pc = "select" /\ resp'.op = "hold" /\ resp'.res = "conflict"
          /\ resp'.id = h) =>
            /\ resp'.taken = LiveTaken(h)
            /\ bookings' = bookings
            /\ booking_seats' = booking_seats]_vars

\* C17: in the step in which the UPDATE of a confirm call turns a booking
\* confirmed, the booking is in status held and its time-to-live has not
\* elapsed
C17_ConfirmOnlyLiveHeld ==
  [][\A b \in BookingIds :
       (bookings'[b].status = "confirmed" /\ confirms'[b] < confirms[b]) =>
          /\ bookings[b].status = "held"
          /\ ~HoldElapsed(b)]_vars

\* C18: for every trip the seat status query answers exactly the seats of
\* the live bookings of the trip
C18_SeatStatusListsLiveSeats ==
  \A t \in Trips :
    ReservedSeats(t) =
      {s.seat_number : s \in {r \in booking_seats :
         r.trip_id = t /\ Live(r.booking_id)}}

\* C19: no hold call whose seat list names a seat twice gets as far as
\* opening a transaction
C19_RepeatedSeatsRejected ==
  [][\A h \in BookingIds :
       (holds[h].pc = "idle" /\ holds'[h].pc = "select") =>
          Cardinality(Range(holds'[h].seats)) = Len(holds'[h].seats)]_vars

\* C20: no held booking is at one instant both found by the SELECT of a
\* confirm of its owner and matched by the DELETE of the sweep or of the
\* reclaim pass, and the DELETE matches no booking before its time-to-live
\* has elapsed
C20_OneClock ==
  \A b \in BookingIds :
    /\ ~(ConfirmRows(b, bookings[b].user_id) # {} /\ ExpiredHeld(b))
    /\ ExpiredHeld(b) => HoldElapsed(b)
====
